---- MODULE Spec2Model ----
(***************************************************************************)
(* State-machine model of the live caption translator:                     *)
(*   src/src/subtitle-processor.js  (the utterance tracker and history)    *)
(*   src/unnamed/part_000           (the translation service: cache, rate  *)
(*                                   gates, in-flight marker, loop guard,  *)
(*                                   timer registry)                       *)
(*   src/src/config.js              (the configuration)                    *)
(*                                                                         *)
(* JavaScript runs one task at a time: every action below is one task of   *)
(* the event loop (a caption snapshot, a timer callback, the resolution of *)
(* a fetch, a call of an exported function), run from its start to the     *)
(* point where it returns or suspends on a pending fetch.  A continuation  *)
(* after an await of an already settled promise runs as a microtask of the *)
(* same task and is part of the same action.                               *)
(*                                                                         *)
(* Strings are sequences of one-character strings, so that length,         *)
(* substring, includes and split are computed as the code computes them.   *)
(* The fixed messages are one-token sequences.  A missing property         *)
(* (undefined) of a string-valued map is the empty sequence: the code      *)
(* only ever tests such values for truthiness, and "" is falsy too.        *)
(*                                                                         *)
(* Time is counted in ticks, and kept relative to the present: where the   *)
(* code stores a timestamp T and later computes Date.now() - T, the model  *)
(* stores the ticks elapsed since T (capped at the largest value the code  *)
(* compares it with); where the code arms a timeout, the model stores the  *)
(* ticks left.  Date.now().toString(), used as an utterance id, is a token *)
(* that is the same within one tick and fresh in every later tick.  The    *)
(* configured durations keep their order (rate limit = clear delay <       *)
(* processing interval < loop cooldown < request timeout < segment         *)
(* timeout) but are scaled down; likewise the length and count limits.     *)
(***************************************************************************)
EXTENDS Integers, Sequences, FiniteSets, TLC

\* ------------------------------------------------------------ configuration
\* Config.API_RATE_LIMIT (500 ms): one tick.
API_RATE_LIMIT == 1
\* clearSubtitleData_delay (500 ms).
clearSubtitleData_delay == 1
\* Config.SUBTITLE_PROCESSING_INTERVAL (2000 ms).
SUBTITLE_PROCESSING_INTERVAL == 2
\* The delay of the loop-reset setTimeout (3000 ms).
LOOP_RESET_DELAY == 3
\* The delay of the AbortController setTimeout of a request (8000 ms).
REQUEST_TIMEOUT == 4
\* Config.SPEECH_SEGMENT_TIMEOUT (40000 ms).
SPEECH_SEGMENT_TIMEOUT == 5
\* MAX_REPEAT_COUNT, unscaled.
MAX_REPEAT_COUNT == 3
\* Config.MAX_STORED_UTTERANCES (10), scaled.
MAX_STORED_UTTERANCES == 2
\* Config.MAX_SPEECH_SEGMENT_LENGTH (3000 characters), scaled.
MAX_SPEECH_SEGMENT_LENGTH == 4
\* The cache threshold (500 entries) and the number evicted (100), scaled.
CACHE_LIMIT == 3
CACHE_EVICT == 1

\* ------------------------------------------------------------------ bounds
\* Requests outstanding at once.
MaxRequests == 2
\* Finalize timeouts armed at once.
MaxTimers == 3
\* Calls of clearSubtitleData and of clearTranslationTimers in a session that
\* has them.
MaxClears == 2
MaxTimerClears == 1
\* Calls of clearSubtitleData in the session of the stuck translation.
MaxStuckClears == 1

\* --------------------------------------------------------------- strings
Translating == <<"Translating...">>
Continuing == <<"Continuing...">>
LoopBreakMessage == <<"Translation temporarily unavailable. Please wait...">>
Undefined == <<>>

\* What the transport may answer (response content after trim()).
TransportResults == {<<"X">>, <<"Y">>}

\* The sessions explored.  A session is the display names and the caption
\* texts (trimmed, non-empty) the extraction collaborator reports in it, and
\* whether the host calls clearSubtitleData and clearTranslationTimers.  The texts "ab", "abc",
\* "abcd", "abcde" continue one another, "abcde" being longer than
\* MAX_SPEECH_SEGMENT_LENGTH; "xy" continues none of them.
Monologue ==
    [ names |-> { <<"A","n">> },
      texts |-> { <<"a","b">>, <<"a","b","c">>, <<"x","y">> },
      growing |-> FALSE, clears |-> FALSE, timerClears |-> FALSE ]

Lecture ==
    [ names |-> { <<"A","n">> },
      texts |-> { <<"a","b">>, <<"a","b","c">>, <<"a","b","c","d">>,
                  <<"a","b","c","d","e">> },
      growing |-> TRUE, clears |-> FALSE, timerClears |-> FALSE ]

Cleared ==
    [ names |-> { <<"A","n">> },
      texts |-> { <<"a","b">>, <<"a","b","c">> },
      growing |-> FALSE, clears |-> TRUE, timerClears |-> FALSE ]

Restarted ==
    [ names |-> { <<"A","n">> },
      texts |-> { <<"a","b","c","d","e">> },
      growing |-> FALSE, clears |-> TRUE, timerClears |-> TRUE ]

Dialogue ==
    [ names |-> { <<"A","n">>, <<"B","o">> },
      texts |-> { <<"a","b">>, <<"x","y">> },
      growing |-> FALSE, clears |-> FALSE, timerClears |-> FALSE ]

Renamed ==
    [ names |-> { <<"A","n">>, <<"a","n">> },
      texts |-> { <<"a","b">>, <<"a","b","c">> },
      growing |-> FALSE, clears |-> FALSE, timerClears |-> FALSE ]

Rescheduled ==
    [ names |-> { <<"A","n">> },
      texts |-> { <<"a","b">>, <<"a","b","c","d","e">> },
      growing |-> TRUE, clears |-> FALSE, timerClears |-> TRUE ]

Sessions ==
    { Monologue, Lecture, Cleared, Restarted, Dialogue, Renamed, Rescheduled }

\* A caption that grows through five texts, one more than the translations
\* that make a loop.
Seminar ==
    [ names |-> { <<"A","n">> },
      texts |-> { <<"a","b">>, <<"a","b","c">>, <<"a","b","c","d">>,
                  <<"a","b","c","d","e">>, <<"a","b","c","d","e","f">> },
      growing |-> TRUE, clears |-> FALSE, timerClears |-> FALSE ]

\* A caption that grows while the transport keeps answering, and a host that
\* clears the data once.
Stuck ==
    [ names |-> { <<"A","n">> },
      texts |-> { <<"a","b">>, <<"a","b","c">>, <<"a","b","c","d">>,
                  <<"a","b","c","d","e">> },
      growing |-> TRUE, clears |-> TRUE, timerClears |-> FALSE ]

\* A conversation in words, for the continuation test of processSubtitles:
\* captions that extend one another, that share their first five words and
\* nothing more, that are unrelated, and a caption of one character.
Hello == <<"H","e","l","l","o">>

HelloHowAreYou ==
    Hello \o <<" ","h","o","w"," ","a","r","e"," ","y","o","u">>

HelloHowAreYouToday == HelloHowAreYou \o <<" ","t","o","d","a","y">>

HelloHowAreYouTodayIAm == HelloHowAreYouToday \o <<" ","I"," ","a","m">>

CompletelyUnrelated ==
    <<"C","o","m","p","l","e","t","e","l","y"," ",
      "u","n","r","e","l","a","t","e","d"," ",
      "s","e","n","t","e","n","c","e">>

FiveWordsF == <<"a"," ","b"," ","c"," ","d"," ","e"," ","f","f","f","f">>

FiveWordsG == <<"a"," ","b"," ","c"," ","d"," ","e"," ","g","g","g","g">>

OneLetter == <<"I">>

Conversation ==
    [ names |-> { <<"A","n">> },
      texts |-> { Hello, HelloHowAreYou, HelloHowAreYouToday,
                  HelloHowAreYouTodayIAm, CompletelyUnrelated,
                  FiveWordsF, FiveWordsG, OneLetter },
      growing |-> FALSE, clears |-> FALSE, timerClears |-> FALSE ]

\* The display names and the caption texts of all sessions.
SpeakerNames == UNION { x.names : x \in Sessions }

CaptionTexts == UNION { x.texts : x \in Sessions }

\* The language pairs a session runs with.
LangPairs == { [in |-> <<"r","u">>, out |-> <<"e","n">>] }

Truthy(v) == v # Undefined

Min(a, b) == IF a <= b THEN a ELSE b

\* String.prototype.substring(0, n).
Substring0(s, n) == SubSeq(s, 1, Min(n, Len(s)))

\* String.prototype.includes.
Includes(hay, needle) ==
    \E i \in 0..(Len(hay) - Len(needle)) :
        SubSeq(hay, i + 1, i + Len(needle)) = needle

\* String.prototype.split(' '): the pieces between the spaces.
RECURSIVE SplitFrom(_, _, _)
SplitFrom(s, i, cur) ==
    IF i > Len(s) THEN <<cur>>
    ELSE IF s[i] = " " THEN <<cur>> \o SplitFrom(s, i + 1, <<>>)
    ELSE SplitFrom(s, i + 1, Append(cur, s[i]))

Split(s) == SplitFrom(s, 1, <<>>)

\* Array.prototype.slice(0, n).join(' ').
RECURSIVE JoinFirst(_, _)
JoinFirst(words, n) ==
    IF n = 0 \/ words = <<>> THEN <<>>
    ELSE IF n = 1 \/ Len(words) = 1 THEN Head(words)
    ELSE Head(words) \o <<" ">> \o JoinFirst(Tail(words), n - 1)

\* Math.floor(length * 0.8).
Floor80(n) == (n * 4) \div 5

\* ------------------------------------------------------------- speakers
\* toLowerCase on the letters the names use.
Lower(c) ==
    CASE c = "A" -> "a"
      [] c = "B" -> "b"
      [] OTHER -> c

RECURSIVE Normalize(_)
Normalize(name) ==
    IF name = <<>> THEN <<>>
    ELSE IF Head(name) = " " THEN Normalize(Tail(name))
    ELSE <<Lower(Head(name))>> \o Normalize(Tail(name))

\* utils.js getSpeakerId: the stable id of a display name.
getSpeakerId(name) == Normalize(name)

\* The property names the per-speaker maps can hold: a JavaScript object
\* accepts any string as a key.
Keys == { getSpeakerId(n) : n \in SpeakerNames } \cup SpeakerNames

\* The snapshot filed under the display name as reported.
SnapshotKeyRaw(name) == name

\* The key processSubtitles files a snapshot under (speakerId).
SnapshotKey(name) == getSpeakerId(name)

\* ------------------------------------------------------------------ state
VARIABLES
    \* subtitle-processor.js
    activeSpeakers,         \* key -> reference to the utterance object, 0 if none
    heap,                   \* reference -> utterance object
    knownSubtitles,         \* Set of texts already seen
    translatedUtterances,   \* key -> array of stored utterances
    isClearing,
    lastFullTextBySpeaker,  \* key -> text
    \* translation service
    translationInProgress,  \* key -> marker set?
    translationCache,       \* Map in insertion order: sequence of [key, value]
    partialTranslations,    \* key -> translation
    lastApiRequestAgo,      \* Date.now() - lastApiRequestTime, capped
    activeTimers,           \* registry: key -> timer id, 0 if none
    lastTranslatedText,     \* key -> text
    lastProcessedAgo,       \* key -> Date.now() - lastProcessedTime[key], capped
    translationRepeatCount, \* key -> count
    lastTranslationBySpeaker, \* key -> translation
    \* the host: clock, armed timeouts, pending fetches
    dateNow,                \* the id token of this tick, 0 if not drawn yet
    timeouts,               \* armed finalize timeouts
    loopResets,             \* armed loop-reset timeouts
    clearingResets,         \* armed isClearing-reset timeouts, in arming order
    requests,               \* fetches awaiting their response
    \* history variables (not program state)
    lastCall,               \* the latest translateText call and what it returned
    callLog,                \* what the external calls issued so far looked like
    guardLog,               \* key -> what the transport answered for it lately
    finalized,              \* the latest utterance finalizeSpeech stored
    transportLog,           \* what the transport answered for which text
    overtaken,              \* keys whose suspended finalizeSpeech saw a caption
    session,                \* the session this is (never changes)
    budget                  \* the clear calls the session may still make

vars ==
    << activeSpeakers, heap, knownSubtitles, translatedUtterances, isClearing,
       lastFullTextBySpeaker, translationInProgress, translationCache,
       partialTranslations, lastApiRequestAgo, activeTimers,
       lastTranslatedText, lastProcessedAgo, translationRepeatCount,
       lastTranslationBySpeaker, dateNow, timeouts, loopResets, clearingResets,
       requests, lastCall, callLog, guardLog, finalized, transportLog,
       overtaken, session, budget >>

\* The whole state as one record, so that a handler is a function of it.
Cur ==
    [ activeSpeakers |-> activeSpeakers, heap |-> heap,
      knownSubtitles |-> knownSubtitles,
      translatedUtterances |-> translatedUtterances,
      isClearing |-> isClearing,
      lastFullTextBySpeaker |-> lastFullTextBySpeaker,
      translationInProgress |-> translationInProgress,
      translationCache |-> translationCache,
      partialTranslations |-> partialTranslations,
      lastApiRequestAgo |-> lastApiRequestAgo,
      activeTimers |-> activeTimers,
      lastTranslatedText |-> lastTranslatedText,
      lastProcessedAgo |-> lastProcessedAgo,
      translationRepeatCount |-> translationRepeatCount,
      lastTranslationBySpeaker |-> lastTranslationBySpeaker,
      dateNow |-> dateNow, timeouts |-> timeouts, loopResets |-> loopResets,
      clearingResets |-> clearingResets, requests |-> requests,
      lastCall |-> lastCall, callLog |-> callLog, guardLog |-> guardLog,
      finalized |-> finalized, transportLog |-> transportLog,
      overtaken |-> overtaken ]

\* No utterance object.
NoObj ==
    [ speaker |-> <<>>, fullText |-> <<>>, translatedText |-> <<>>,
      utteranceId |-> 0, active |-> FALSE ]

\* No translateText call yet.  Of a call: its arguments, the caller that
\* awaits it, the path it took, the value it resolved to; prevPath and
\* prevRet are the path and the value of the call before it when that call
\* had the same arguments and had resolved ("none" otherwise); afterReset
\* says that the call received the first translation, different from the
\* looping one, since a loop cooldown of the speaker ended; flip changes
\* when a call repeats the call before it in all of this, so that every call
\* changes the record.
NoCall ==
    [ key |-> <<>>, text |-> <<>>, lang |-> <<>>, caller |-> "none",
      path |-> "none", ret |-> <<>>, prevPath |-> "none", prevRet |-> <<>>,
      afterReset |-> FALSE, flip |-> FALSE ]

\* No external call issued yet: the gaps start at their caps.
NoCalls ==
    [ ago |-> [k \in Keys |-> SUBTITLE_PROCESSING_INTERVAL],
      anyAgo |-> API_RATE_LIMIT,
      sameSpeakerGap |-> SUBTITLE_PROCESSING_INTERVAL,
      anyGap |-> API_RATE_LIMIT ]

\* Nothing received from the transport for a key yet.  text: the latest
\* translation received; n: how many times in a row it was received, counted
\* from the latest reset of the loop guard; looped: the translation a loop
\* was detected on; cooled: the cooldown of that loop has ended and no
\* different translation has arrived since.
NoGuard ==
    [ text |-> <<>>, n |-> 0, looped |-> <<>>, cooled |-> FALSE ]

\* Nothing finalized yet.  flip changes with every utterance stored; tied
\* says that two utterances have been stored for one speaker within one tick,
\* so that the order of their lastUpdated stamps is not known.
NoFinal ==
    [ key |-> <<>>, utteranceId |-> 0, isLong |-> FALSE, flip |-> FALSE,
      tied |-> FALSE ]

\* The frame of a caller that awaits translateText.
\*   kind "update":   translateAndUpdateUtterance
\*   kind "finalize": finalizeSpeech, holding currentUtterance (obj) and
\*                    isExcessivelyLong (isLong)
UpdateFrame == [ kind |-> "update", obj |-> 0, isLong |-> FALSE ]
FinalizeFrame(obj, isLong) == [ kind |-> "finalize", obj |-> obj, isLong |-> isLong ]

\* ------------------------------------------------- translation service
\* `${inputLang}:${outputLang}:${text}`
CacheKey(lang, text) == lang.in \o <<":">> \o lang.out \o <<":">> \o text

\* A lookup that never finds the key.
CacheHasNever(cache, key) == FALSE

CacheHas(cache, key) == \E i \in 1..Len(cache) : cache[i].key = key

\* A lookup that answers with the oldest entry whatever the key.
CacheGetFirst(cache, key) == cache[1].value

CacheGet(cache, key) ==
    cache[CHOOSE i \in 1..Len(cache) : cache[i].key = key].value

\* Map.prototype.set: a present key keeps its place, a new one goes last.
CacheSet(cache, key, value) ==
    IF CacheHas(cache, key)
    THEN [i \in 1..Len(cache) |->
            IF cache[i].key = key THEN [key |-> key, value |-> value] ELSE cache[i]]
    ELSE Append(cache, [key |-> key, value |-> value])

\* The cache-size limit: past CACHE_LIMIT entries the first CACHE_EVICT go.
CacheTrim(cache) ==
    IF Len(cache) > CACHE_LIMIT
    THEN SubSeq(cache, Min(CACHE_EVICT, Len(cache)) + 1, Len(cache))
    ELSE cache

\* updateActiveSpeakerTranslation: write the text into the speaker's active
\* utterance (and redraw) when it differs.
updateActiveSpeakerTranslation(S, k, translatedText) ==
    LET o == S.activeSpeakers[k] IN
    IF o # 0 /\ S.heap[o].active /\ S.heap[o].translatedText # translatedText
    THEN [S EXCEPT !.heap[o].translatedText = translatedText]
    ELSE S

\* hasTimePassedForTranslation, the test.
hasTimePassed(S, k) ==
    S.lastProcessedAgo[k] >= SUBTITLE_PROCESSING_INTERVAL

\* hasTimePassedForTranslation, the effect when the test passes.
markProcessed(S, k) == [S EXCEPT !.lastProcessedAgo[k] = 0]

\* A rate gate that is never closed.
rateLimitedNever(S) == FALSE

\* The global rate gate of translateText: closed when the last outbound call
\* is too recent.
rateLimited(S) == S.lastApiRequestAgo < API_RATE_LIMIT

\* The in-flight gate of translateText.
inFlight(S, k) == S.translationInProgress[k]

\* A reset that leaves the counters as they are.
resetLoopDetectionKeep(S, k) == S

resetLoopDetection(S, k) ==
    [S EXCEPT !.translationRepeatCount[k] = 0,
              !.lastTranslationBySpeaker[k] = Undefined,
              !.guardLog[k].n = 0]

clearTranslationLoopData(S) ==
    [S EXCEPT !.translationRepeatCount = [k \in Keys |-> 0],
              !.lastTranslationBySpeaker = [k \in Keys |-> Undefined],
              !.guardLog = [k \in Keys |-> [@[k] EXCEPT !.n = 0]]]

\* The callback of the loop-reset timeout.
loopResetCallback(S, k) ==
    LET S1 == resetLoopDetection(S, k) IN
    [S1 EXCEPT !.guardLog[k].cooled = (S.guardLog[k].looped # <<>>)]

\* detectAndBreakTranslationLoop: the state it leaves.
loopState(S, k, translatedText) ==
    LET last == S.lastTranslationBySpeaker[k]
        cnt == S.translationRepeatCount[k]
    IN
    IF Truthy(last)
    THEN IF last = translatedText
         THEN IF cnt + 1 >= MAX_REPEAT_COUNT
              THEN [S EXCEPT !.translationRepeatCount[k] = cnt + 1]
              ELSE [S EXCEPT !.translationRepeatCount[k] = cnt + 1,
                             !.lastTranslationBySpeaker[k] = translatedText]
         ELSE [S EXCEPT !.translationRepeatCount[k] = 0,
                        !.lastTranslationBySpeaker[k] = translatedText]
    ELSE [S EXCEPT !.lastTranslationBySpeaker[k] = translatedText]

\* A detector that flags one repeat sooner.
loopDetectedEarly(S, k, translatedText) ==
    /\ Truthy(S.lastTranslationBySpeaker[k])
    /\ S.lastTranslationBySpeaker[k] = translatedText
    /\ S.translationRepeatCount[k] + 2 >= MAX_REPEAT_COUNT

\* detectAndBreakTranslationLoop: its result.
loopDetected(S, k, translatedText) ==
    /\ Truthy(S.lastTranslationBySpeaker[k])
    /\ S.lastTranslationBySpeaker[k] = translatedText
    /\ S.translationRepeatCount[k] + 1 >= MAX_REPEAT_COUNT

\* What a gate that turns the call away returns.
partialOrPlaceholder(S, k) ==
    IF Truthy(S.partialTranslations[k]) THEN S.partialTranslations[k]
    ELSE Translating

\* A call made now takes `path` and, unless a request is issued, resolves
\* to `ret`.
Returned(S, k, text, lang, frame, path, ret) ==
    LET p == S.lastCall
        again == /\ p.path \notin {"none", "issued"}
                 /\ p.key = k /\ p.text = text /\ p.lang = lang
        call == [ key |-> k, text |-> text, lang |-> lang,
                  caller |-> frame.kind, path |-> path, ret |-> ret,
                  prevPath |-> IF again THEN p.path ELSE "none",
                  prevRet |-> IF again THEN p.ret ELSE <<>>,
                  afterReset |-> FALSE, flip |-> FALSE ]
    IN [S EXCEPT !.lastCall =
          IF call = [p EXCEPT !.flip = FALSE]
          THEN [call EXCEPT !.flip = ~p.flip]
          ELSE call]

\* The call that issued request r resumes, takes `path` and resolves to `ret`.
Resumed(S, r, path, ret, afterReset) ==
    [S EXCEPT !.lastCall =
        [ key |-> r.key, text |-> r.text, lang |-> r.lang,
          caller |-> r.frame.kind, path |-> path, ret |-> ret,
          prevPath |-> "none", prevRet |-> <<>>, afterReset |-> afterReset,
          flip |-> FALSE ]]

\* What the transport answered for k lately, after it answers translatedText.
Received(g, translatedText) ==
    IF g.text = translatedText
    THEN [g EXCEPT !.n = Min(@ + 1, MAX_REPEAT_COUNT + 1)]
    ELSE [g EXCEPT !.text = translatedText, !.n = 1]

\* The call log after an external call for k now: the smallest gaps seen
\* between two calls for one speaker and between any two calls.
Logged(S, k) ==
    LET L == S.callLog IN
    [ ago |-> [L.ago EXCEPT ![k] = 0],
      anyAgo |-> 0,
      sameSpeakerGap |-> Min(L.sameSpeakerGap, L.ago[k]),
      anyGap |-> Min(L.anyGap, L.anyAgo) ]

\* The utteranceId of the open utterance of k, 0 if k has none.
openUtteranceId(S, k) ==
    IF S.activeSpeakers[k] # 0 THEN S.heap[S.activeSpeakers[k]].utteranceId
    ELSE 0

\* A request issued without the in-flight marker.
issueRequestUnmarked(S, k, text, lang, frame) ==
    LET S1 == [S EXCEPT !.lastTranslatedText[k] = text]
        S2 == updateActiveSpeakerTranslation(S1, k, Translating)
        S3 == [S2 EXCEPT !.lastApiRequestAgo = 0,
                         !.requests = @ \cup
                            {[ key |-> k, text |-> text, lang |-> lang,
                               age |-> 0, frame |-> frame,
                               sentFor |-> openUtteranceId(S, k) ]},
                         !.callLog = Logged(S, k)]
    IN Returned(S3, k, text, lang, frame, "issued", Undefined)

\* translateText from the marking of the request to the suspension on fetch.
\* The request remembers (sentFor) the utterance whose text it carries.
issueRequest(S, k, text, lang, frame) ==
    LET S1 == [S EXCEPT !.lastTranslatedText[k] = text,
                        !.translationInProgress[k] = TRUE]
        S2 == updateActiveSpeakerTranslation(S1, k, Translating)
        S3 == [S2 EXCEPT !.lastApiRequestAgo = 0,
                         !.requests = @ \cup
                            {[ key |-> k, text |-> text, lang |-> lang,
                               age |-> 0, frame |-> frame,
                               sentFor |-> openUtteranceId(S, k) ]},
                         !.callLog = Logged(S, k)]
    IN Returned(S3, k, text, lang, frame, "issued", Undefined)

\* The divergence heuristic of translateText.
divergenceReset(S, k, text) ==
    LET prev == S.lastTranslatedText[k] IN
    IF Truthy(prev) /\ Len(text) > 0 /\ ~Includes(text, prev) /\ ~Includes(prev, text)
    THEN resetLoopDetection(S, k)
    ELSE S

\* A shortcut that is never taken.
sameTextNever(S, k, text) == FALSE

\* The same-text shortcut of translateText: the text is the last one sent for
\* the speaker and the speaker has a partial translation.
sameText(S, k, text) ==
    text = S.lastTranslatedText[k] /\ Truthy(S.partialTranslations[k])

\* translateText up to its first suspension.  The state it returns holds in
\* lastCall the path taken and, unless a request was issued, the value the
\* call resolves to.
translateText(S, k, text, lang, frame) ==
    LET cacheKey == CacheKey(lang, text) IN
    IF Len(text) < 2
    THEN Returned(S, k, text, lang, frame, "trivial", text)
    ELSE IF CacheHas(S.translationCache, cacheKey)
    THEN LET cached == CacheGet(S.translationCache, cacheKey) IN
         Returned(updateActiveSpeakerTranslation(S, k, cached),
                  k, text, lang, frame, "cache", cached)
    ELSE IF sameText(S, k, text)
    THEN Returned(S, k, text, lang, frame, "same", S.partialTranslations[k])
    ELSE LET S1 == divergenceReset(S, k, text) IN
         IF ~hasTimePassed(S1, k)
         THEN Returned(S1, k, text, lang, frame, "interval",
                       partialOrPlaceholder(S1, k))
         ELSE LET S2 == markProcessed(S1, k) IN
              IF rateLimited(S2)
              THEN Returned(S2, k, text, lang, frame, "rate",
                            partialOrPlaceholder(S2, k))
              ELSE IF inFlight(S2, k)
              THEN Returned(S2, k, text, lang, frame, "inflight",
                            partialOrPlaceholder(S2, k))
              ELSE issueRequest(S2, k, text, lang, frame)

\* translateText resumed by a response that carries a translation.
translateSuccess(S, r, translatedText) ==
    LET k == r.key
        g == Received(S.guardLog[k], translatedText)
        afterReset == g.cooled /\ translatedText # g.looped
        S1 == [S EXCEPT !.translationCache =
                  CacheSet(@, CacheKey(r.lang, r.text), translatedText),
                        !.transportLog = @ \cup
                            {[ key |-> CacheKey(r.lang, r.text),
                               value |-> translatedText ]}]
    IN
    IF loopDetected(S1, k, translatedText)
    THEN LET S2 == loopState(S1, k, translatedText)
             S3 == [S2 EXCEPT !.translationInProgress[k] = FALSE,
                              !.partialTranslations[k] = Undefined,
                              !.lastTranslatedText[k] = Undefined]
             S4 == updateActiveSpeakerTranslation(S3, k, LoopBreakMessage)
             S5 == [S4 EXCEPT !.loopResets = @ \cup
                       {[key |-> k, left |-> LOOP_RESET_DELAY]},
                              !.guardLog[k] =
                                  [g EXCEPT !.looped = translatedText,
                                            !.cooled = FALSE]]
         IN Resumed(S5, r, "loop", LoopBreakMessage, afterReset)
    ELSE LET S2 == loopState(S1, k, translatedText)
             S3 == [S2 EXCEPT !.partialTranslations[k] = translatedText]
             S4 == updateActiveSpeakerTranslation(S3, k, translatedText)
             S5 == [S4 EXCEPT !.translationInProgress[k] = FALSE,
                              !.translationCache = CacheTrim(@),
                              !.guardLog[k] =
                                  IF afterReset
                                  THEN [g EXCEPT !.looped = <<>>,
                                                 !.cooled = FALSE]
                                  ELSE g]
         IN Resumed(S5, r, "success", translatedText, afterReset)

\* A failure path that leaves the in-flight marker set.
translateFailureKeepMarker(S, r) ==
    LET k == r.key IN
    IF Truthy(S.partialTranslations[k])
    THEN Resumed(S, r, "failed", S.partialTranslations[k], FALSE)
    ELSE Resumed(updateActiveSpeakerTranslation(S, k, Translating),
                 r, "failed", Translating, FALSE)

\* translateText resumed by a failure: abort, transport error, bad status,
\* malformed payload.
translateFailure(S, r) ==
    LET k == r.key
        S1 == [S EXCEPT !.translationInProgress[k] = FALSE]
    IN
    IF Truthy(S1.partialTranslations[k])
    THEN Resumed(S1, r, "failed", S1.partialTranslations[k], FALSE)
    ELSE Resumed(updateActiveSpeakerTranslation(S1, k, Translating),
                 r, "failed", Translating, FALSE)

\* ---------------------------------------------------------------- clock
\* The utterance ids in use: an id is a time, so that the id of an utterance
\* created now differs from every id handed out before.
IdsInUse(S) ==
    ({ S.heap[o].utteranceId : o \in DOMAIN S.heap }
        \cup { r.sentFor : r \in S.requests }
        \cup UNION { { S.translatedUtterances[k][i].utteranceId :
                           i \in 1..Len(S.translatedUtterances[k]) } : k \in Keys })
    \ {0}

IdTokens == 1..(Cardinality(Keys) * (MAX_STORED_UTTERANCES + 2) + MaxRequests + 1)

\* Date.now().toString(): the token of this tick, drawn on first use.
withDateNow(S) ==
    IF S.dateNow # 0 THEN S
    ELSE [S EXCEPT !.dateNow =
            CHOOSE i \in IdTokens :
                /\ i \notin IdsInUse(S)
                /\ \A j \in 1..(i - 1) : j \in IdsInUse(S)]

\* --------------------------------------------------------------- timers
\* References for utterance objects: one per key and one per suspended
\* finalizeSpeech is enough, unreferenced objects being collected.
Refs == 1..(Cardinality(Keys) + MaxRequests)

TimerIds == 1..(MaxTimers + Cardinality(Keys) + 1)

\* setTimeout returns an id no armed timeout and no registry entry holds.
FreshTimerId(S) ==
    CHOOSE i \in TimerIds :
        /\ i \notin { t.id : t \in S.timeouts } \cup { S.activeTimers[k] : k \in Keys }
        /\ \A j \in 1..(i - 1) :
              j \in { t.id : t \in S.timeouts } \cup { S.activeTimers[k] : k \in Keys }

\* clearTimeout: a no-op for an id that is not armed.
clearTimeout(S, id) ==
    [S EXCEPT !.timeouts = { t \in @ : t.id # id }]

\* clearActiveTimerForSpeaker(speakerId, 'finalize')
clearActiveTimerForSpeaker(S, k) ==
    IF S.activeTimers[k] # 0
    THEN [clearTimeout(S, S.activeTimers[k]) EXCEPT !.activeTimers[k] = 0]
    ELSE S

\* setActiveTimerForSpeaker(speakerId, 'finalize', timer)
setActiveTimerForSpeaker(S, k, timer) ==
    LET S1 == IF S.activeTimers[k] # 0 THEN clearTimeout(S, S.activeTimers[k]) ELSE S
    IN [S1 EXCEPT !.activeTimers[k] = timer]

\* setActiveTimerForSpeaker(speakerId, 'finalize', setTimeout(() =>
\*   finalizeSpeech(speakerId, inputLang, outputLang), SPEECH_SEGMENT_TIMEOUT)):
\* the timeout is created first, then registered.
armFinalizeTimer(S, k, lang) ==
    LET id == FreshTimerId(S)
        S1 == [S EXCEPT !.timeouts = @ \cup
                  {[ id |-> id, key |-> k, lang |-> lang,
                     left |-> SPEECH_SEGMENT_TIMEOUT ]}]
    IN setActiveTimerForSpeaker(S1, k, id)

\* clearTranslationTimers.  The registry maps a key to a timer id, a number:
\* the inner for-in over that number visits nothing, so no clearTimeout is
\* ever called; the registry and the per-speaker state are dropped.
clearTranslationTimers(S) ==
    clearTranslationLoopData(
        [S EXCEPT !.activeTimers = [k \in Keys |-> 0],
                  !.translationInProgress = [k \in Keys |-> FALSE],
                  !.lastTranslatedText = [k \in Keys |-> Undefined],
                  !.lastProcessedAgo = [k \in Keys |-> SUBTITLE_PROCESSING_INTERVAL]])

\* ------------------------------------------------------ utterance history
\* A stored utterance.  finalizeSpeech stores {...currentUtterance, active:
\* false}: utteranceId, fullText, translatedText.  translateAndUpdateUtterance
\* stores {id, original, translated, active: true}: no utteranceId.  A field
\* the stored object lacks is 0 or the empty sequence.
FinalEntry(obj) ==
    [ utteranceId |-> obj.utteranceId, id |-> 0, speaker |-> obj.speaker,
      fullText |-> obj.fullText, translatedText |-> obj.translatedText,
      original |-> <<>>, translated |-> <<>>, active |-> FALSE, updatedAgo |-> 0 ]

PartialEntry(obj, translatedText) ==
    [ utteranceId |-> 0, id |-> obj.utteranceId, speaker |-> obj.speaker,
      fullText |-> <<>>, translatedText |-> <<>>,
      original |-> obj.fullText, translated |-> translatedText,
      active |-> TRUE, updatedAgo |-> 0 ]

\* {...existing, ...utterance, lastUpdated: Date.now()}
MergeEntry(existing, utterance) ==
    IF utterance.utteranceId # 0
    THEN [existing EXCEPT !.utteranceId = utterance.utteranceId,
                          !.speaker = utterance.speaker,
                          !.fullText = utterance.fullText,
                          !.translatedText = utterance.translatedText,
                          !.active = utterance.active,
                          !.updatedAgo = 0]
    ELSE [existing EXCEPT !.id = utterance.id,
                          !.speaker = utterance.speaker,
                          !.original = utterance.original,
                          !.translated = utterance.translated,
                          !.active = utterance.active,
                          !.updatedAgo = 0]

\* Array.prototype.filter of validateUtterancesMap: drop entries without an
\* utteranceId and all but the first of each utteranceId.
RECURSIVE DedupFrom(_, _)
DedupFrom(list, seen) ==
    IF list = <<>> THEN <<>>
    ELSE IF Head(list).utteranceId = 0 \/ Head(list).utteranceId \in seen
    THEN DedupFrom(Tail(list), seen)
    ELSE <<Head(list)>> \o DedupFrom(Tail(list), seen \cup {Head(list).utteranceId})

\* Array.prototype.sort with (a, b) => timeB - timeA: stable, most recently
\* updated first.  updatedAgo is Date.now() - lastUpdated capped at one tick:
\* every array is sorted whenever one is changed, so the entries updated
\* before this tick are in order already.
RECURSIVE InsertDesc(_, _)
InsertDesc(sorted, e) ==
    IF sorted = <<>> THEN <<e>>
    ELSE IF e.updatedAgo < Head(sorted).updatedAgo THEN <<e>> \o sorted
    ELSE <<Head(sorted)>> \o InsertDesc(Tail(sorted), e)

RECURSIVE SortDesc(_)
SortDesc(list) ==
    IF list = <<>> THEN <<>>
    ELSE InsertDesc(SortDesc(SubSeq(list, 1, Len(list) - 1)), list[Len(list)])

validateList(list) == SortDesc(DedupFrom(list, {}))

\* validateUtterancesMap: every speaker's array, filtered and sorted.
validateUtterancesMap(S) ==
    [S EXCEPT !.translatedUtterances = [k \in Keys |-> validateList(@[k])]]

\* findIndex(u => u.utteranceId === utterance.utteranceId), 0 for -1.
FindIndex(list, utteranceId) ==
    IF \E i \in 1..Len(list) : list[i].utteranceId = utteranceId
    THEN CHOOSE i \in 1..Len(list) :
            /\ list[i].utteranceId = utteranceId
            /\ \A j \in 1..(i - 1) : list[j].utteranceId # utteranceId
    ELSE 0

\* Array.prototype.slice(-n)
SliceLast(list, n) ==
    IF Len(list) > n THEN SubSeq(list, Len(list) - n + 1, Len(list)) ELSE list

\* The array of updateTranslatedUtterancesMap before validation.
storeEntry(list, utterance) ==
    LET i == FindIndex(list, utterance.utteranceId) IN
    IF i # 0
    THEN [list EXCEPT ![i] = MergeEntry(list[i], utterance)]
    ELSE LET pushed == Append(list, [utterance EXCEPT !.updatedAgo = 0]) IN
         IF Len(pushed) > MAX_STORED_UTTERANCES
         THEN SliceLast(pushed, MAX_STORED_UTTERANCES)
         ELSE pushed

\* A store that pushes every utterance as a new entry: no lookup of the
\* utteranceId, no validation.
updateTranslatedUtterancesMapPushing(S, k, utterance) ==
    [S EXCEPT !.translatedUtterances[k] =
        SliceLast(Append(@, [utterance EXCEPT !.updatedAgo = 0]),
                  MAX_STORED_UTTERANCES)]

updateTranslatedUtterancesMap(S, k, utterance) ==
    validateUtterancesMap(
        [S EXCEPT !.translatedUtterances[k] = storeEntry(@, utterance)])

\* ------------------------------------------------------ utterance tracker
\* A continuation test without the five-word rule.
isContinuationByPrefix(existingText, text) ==
    /\ Truthy(existingText)
    /\ Truthy(text)
    /\ \/ Includes(existingText, Substring0(text, Floor80(Len(text))))
       \/ Includes(text, Substring0(existingText, Floor80(Len(existingText))))

\* The continuation test of processSubtitles.
isContinuationOf(existingText, text) ==
    /\ Truthy(existingText)
    /\ Truthy(text)
    /\ \/ Includes(existingText, Substring0(text, Floor80(Len(text))))
       \/ Includes(text, Substring0(existingText, Floor80(Len(existingText))))
       \/ /\ Len(Split(existingText)) >= 5
          /\ Len(Split(text)) >= 5
          /\ JoinFirst(Split(existingText), 5) = JoinFirst(Split(text), 5)

\* A rule that takes every snapshot's text.
replacesTextAlways(existingText, text) == TRUE

\* Whether a snapshot with `text` replaces the text of an open utterance.
replacesText(existingText, text) ==
    /\ \/ isContinuationOf(existingText, text)
       \/ Len(text) > Len(existingText)
       \/ existingText # text
    /\ ~(isContinuationOf(existingText, text) /\ Len(text) < Len(existingText))

\* A reference no key and no suspended finalizeSpeech holds.
Referenced(S) ==
    ({ S.activeSpeakers[k] : k \in Keys }
        \cup { r.frame.obj : r \in S.requests }) \ {0}

NewRef(S) ==
    CHOOSE o \in Refs :
        /\ o \notin Referenced(S)
        /\ \A p \in 1..(o - 1) : p \in Referenced(S)

\* Unreferenced utterance objects are garbage.
Collect(S) ==
    [S EXCEPT !.heap = [o \in Refs |-> IF o \in Referenced(S) THEN @[o] ELSE NoObj]]

\* translateAndUpdateUtterance after its await: the speaker is looked up
\* again, by key.
applyTranslation(S, k, translatedText) ==
    LET o == S.activeSpeakers[k] IN
    IF o # 0 /\ Truthy(translatedText) /\ translatedText # S.heap[o].translatedText
    THEN LET S1 == [S EXCEPT !.heap[o].translatedText = translatedText] IN
         updateTranslatedUtterancesMap(S1, k, PartialEntry(S1.heap[o], translatedText))
    ELSE S

\* translateAndUpdateUtterance up to its suspension, or to its end when
\* translateText resolves without a request.
translateAndUpdateUtterance(S, k, lang) ==
    LET o == S.activeSpeakers[k] IN
    IF o = 0 THEN S
    ELSE LET S1 == translateText(S, k, S.heap[o].fullText, lang, UpdateFrame) IN
         IF S1.lastCall.path = "issued" THEN S1
         ELSE applyTranslation(S1, k, S1.lastCall.ret)

\* A finalizeSpeech of the speaker k is suspended on its final translation.
finalizing(S, k) ==
    \E r \in S.requests : r.key = k /\ r.frame.kind = "finalize"

\* A caption of k is processed: a suspended finalizeSpeech of k is overtaken.
overtake(S, k) ==
    IF finalizing(S, k) THEN [S EXCEPT !.overtaken = @ \cup {k}] ELSE S

\* processSubtitles, the branch for a speaker with an open utterance.
continueSpeech(S0, k, text, lang) ==
    LET S == overtake(S0, k)
        o == S.activeSpeakers[k]
        existingText == S.heap[o].fullText
        S1 == IF replacesText(existingText, text)
              THEN [S EXCEPT !.heap[o].fullText = text,
                             !.lastFullTextBySpeaker[k] = text]
              ELSE S
        S2 == clearActiveTimerForSpeaker(S1, k)
        S3 == armFinalizeTimer(S2, k, lang)
    IN translateAndUpdateUtterance(S3, k, lang)

\* processSubtitles, the branch for a speaker without an open utterance.
newSpeech(S0, k, name, text, lang) ==
    LET S == withDateNow(overtake(S0, k))
        o == NewRef(S)
        S1 == [S EXCEPT !.activeSpeakers[k] = o,
                        !.heap[o] =
                            [ speaker |-> name, fullText |-> text,
                              translatedText |-> Translating,
                              utteranceId |-> S.dateNow, active |-> TRUE ],
                        !.lastFullTextBySpeaker[k] = text]
        S2 == armFinalizeTimer(S1, k, lang)
    IN translateAndUpdateUtterance(S2, k, lang)

\* processSubtitles(true, inputLang, outputLang) with one caption container
\* holding `text`, the detected speaker being `name`.
processSubtitles(S, name, text, lang) ==
    IF S.isClearing \/ text \in S.knownSubtitles THEN S
    ELSE LET k == SnapshotKey(name)
             S1 == [S EXCEPT !.knownSubtitles = @ \cup {text}]
         IN IF S1.lastFullTextBySpeaker[k] = text THEN S1
            ELSE IF S1.activeSpeakers[k] # 0
            THEN continueSpeech(S1, k, text, lang)
            ELSE newSpeech(S1, k, name, text, lang)

\* finalizeSpeech from the point where the final translation, if one was
\* asked for, is in currentUtterance (the object `o`, which may no longer be
\* the one the active set holds).
finishFinalize(S, k, o, isLong) ==
    LET S0 == [S EXCEPT !.finalized =
                  [ key |-> k, utteranceId |-> S.heap[o].utteranceId,
                    isLong |-> isLong, flip |-> ~S.finalized.flip,
                    tied |-> \/ S.finalized.tied
                             \/ \E i \in 1..Len(S.translatedUtterances[k]) :
                                   S.translatedUtterances[k][i].updatedAgo = 0 ]]
        S1 == updateTranslatedUtterancesMap(S0, k, FinalEntry(S.heap[o]))
    IN
    IF isLong
    THEN LET S2 == [withDateNow(S1) EXCEPT !.activeSpeakers[k] = 0]
             n == NewRef(S2)
         IN [S2 EXCEPT !.activeSpeakers[k] = n,
                       !.heap[n] =
                           [ speaker |-> S.heap[o].speaker, fullText |-> <<>>,
                             translatedText |-> Continuing,
                             utteranceId |-> S2.dateNow, active |-> TRUE ]]
    ELSE IF Truthy(S.heap[o].translatedText) /\ S.heap[o].translatedText # Translating
         THEN [S1 EXCEPT !.activeSpeakers[k] = 0]
         ELSE S1

\* finalizeSpeech resumed with the final translation.
resumeFinalize(S, k, o, isLong, finalText) ==
    finishFinalize([S EXCEPT !.heap[o].translatedText = finalText], k, o, isLong)

\* Whether finalizeSpeech asks for a final translation.
needsFinalTranslation(obj, isLong) ==
    isLong \/ ~Truthy(obj.translatedText) \/ obj.translatedText = Translating

isExcessivelyLong(obj) == Len(obj.fullText) > MAX_SPEECH_SEGMENT_LENGTH

\* finalizeSpeech up to its suspension, or to its end.
finalizeSpeech(S, k, lang) ==
    LET o == S.activeSpeakers[k] IN
    IF o = 0 \/ S.isClearing THEN S
    ELSE LET isLong == isExcessivelyLong(S.heap[o]) IN
         IF needsFinalTranslation(S.heap[o], isLong)
         THEN LET S1 == translateText(S, k, S.heap[o].fullText, lang,
                                      FinalizeFrame(o, isLong))
              IN IF S1.lastCall.path = "issued" THEN S1
                 ELSE resumeFinalize(S1, k, o, isLong, S1.lastCall.ret)
         ELSE finishFinalize(S, k, o, isLong)

\* clearSubtitleData: the finalize timer of every speaker in the active set
\* is cleared through the registry; the flag is reset by a timeout.
RECURSIVE clearTimersOf(_, _)
clearTimersOf(S, ks) ==
    IF ks = {} THEN S
    ELSE LET k == CHOOSE x \in ks : TRUE IN
         clearTimersOf(clearActiveTimerForSpeaker(S, k), ks \ {k})

\* A clear that keeps the texts already seen.
clearSubtitleDataKeepKnown(S) ==
    LET S1 == clearTimersOf(S, { k \in Keys : S.activeSpeakers[k] # 0 }) IN
    [S1 EXCEPT !.isClearing = TRUE,
               !.translatedUtterances = [k \in Keys |-> <<>>],
               !.activeSpeakers = [k \in Keys |-> 0],
               !.lastFullTextBySpeaker = [k \in Keys |-> Undefined],
               !.clearingResets = Append(@, clearSubtitleData_delay)]

clearSubtitleData(S) ==
    LET S1 == clearTimersOf(S, { k \in Keys : S.activeSpeakers[k] # 0 }) IN
    [S1 EXCEPT !.isClearing = TRUE,
               !.translatedUtterances = [k \in Keys |-> <<>>],
               !.activeSpeakers = [k \in Keys |-> 0],
               !.knownSubtitles = {},
               !.lastFullTextBySpeaker = [k \in Keys |-> Undefined],
               !.clearingResets = Append(@, clearSubtitleData_delay)]

\* The caller of translateText resumed with the value the call resolves to.
resumeCaller(S, r) ==
    IF r.frame.kind = "update"
    THEN applyTranslation(S, r.key, S.lastCall.ret)
    ELSE LET S1 == resumeFinalize(S, r.key, r.frame.obj, r.frame.isLong,
                                  S.lastCall.ret)
         IN IF finalizing(S1, r.key) THEN S1
            ELSE [S1 EXCEPT !.overtaken = @ \ {r.key}]

\* ------------------------------------------------------------ the machine
\* The module state of both modules when they are loaded.
Constructed ==
    /\ activeSpeakers = [k \in Keys |-> 0]
    /\ heap = [o \in Refs |-> NoObj]
    /\ knownSubtitles = {}
    /\ translatedUtterances = [k \in Keys |-> <<>>]
    /\ isClearing = FALSE
    /\ lastFullTextBySpeaker = [k \in Keys |-> Undefined]
    /\ translationInProgress = [k \in Keys |-> FALSE]
    /\ translationCache = <<>>
    /\ partialTranslations = [k \in Keys |-> Undefined]
    /\ lastApiRequestAgo = API_RATE_LIMIT
    /\ activeTimers = [k \in Keys |-> 0]
    /\ lastTranslatedText = [k \in Keys |-> Undefined]
    /\ lastProcessedAgo = [k \in Keys |-> SUBTITLE_PROCESSING_INTERVAL]
    /\ translationRepeatCount = [k \in Keys |-> 0]
    /\ lastTranslationBySpeaker = [k \in Keys |-> Undefined]
    /\ dateNow = 0
    /\ timeouts = {}
    /\ loopResets = {}
    /\ clearingResets = <<>>
    /\ requests = {}
    /\ lastCall = NoCall
    /\ callLog = NoCalls
    /\ guardLog = [k \in Keys |-> NoGuard]
    /\ finalized = NoFinal
    /\ transportLog = {}
    /\ overtaken = {}

Init ==
    /\ Constructed
    /\ session \in Sessions
    /\ budget = [ clears |-> IF session.clears THEN MaxClears ELSE 0,
                  timerClears |->
                      IF session.timerClears THEN MaxTimerClears ELSE 0 ]

\* The step to state S, objects no longer referenced being collected.  A step
\* that would exceed the bounds of the model is not taken.
Commit(S0) ==
    LET S == Collect(S0) IN
    /\ Cardinality(S.requests) <= MaxRequests
    /\ Cardinality(S.timeouts) <= MaxTimers
    /\ UNCHANGED session
    /\ activeSpeakers' = S.activeSpeakers
    /\ heap' = S.heap
    /\ knownSubtitles' = S.knownSubtitles
    /\ translatedUtterances' = S.translatedUtterances
    /\ isClearing' = S.isClearing
    /\ lastFullTextBySpeaker' = S.lastFullTextBySpeaker
    /\ translationInProgress' = S.translationInProgress
    /\ translationCache' = S.translationCache
    /\ partialTranslations' = S.partialTranslations
    /\ lastApiRequestAgo' = S.lastApiRequestAgo
    /\ activeTimers' = S.activeTimers
    /\ lastTranslatedText' = S.lastTranslatedText
    /\ lastProcessedAgo' = S.lastProcessedAgo
    /\ translationRepeatCount' = S.translationRepeatCount
    /\ lastTranslationBySpeaker' = S.lastTranslationBySpeaker
    /\ dateNow' = S.dateNow
    /\ timeouts' = S.timeouts
    /\ loopResets' = S.loopResets
    /\ clearingResets' = S.clearingResets
    /\ requests' = S.requests
    /\ lastCall' = S.lastCall
    /\ callLog' = S.callLog
    /\ guardLog' = S.guardLog
    /\ finalized' = S.finalized
    /\ transportLog' = S.transportLog
    /\ overtaken' = S.overtaken

\* A caption snapshot arrives.
ProcessSubtitles ==
    \E name \in session.names, text \in session.texts, lang \in LangPairs :
        /\ session.growing => \A known \in knownSubtitles : Len(known) < Len(text)
        /\ Commit(processSubtitles(Cur, name, text, lang))
        /\ UNCHANGED budget

\* A finalize timeout that is due fires.
FinalizeTimerFires ==
    \E t \in timeouts :
        /\ t.left = 0
        /\ Commit(finalizeSpeech([Cur EXCEPT !.timeouts = @ \ {t}], t.key, t.lang))
        /\ UNCHANGED budget

\* A loop-reset timeout that is due fires.
LoopResetFires ==
    \E t \in loopResets :
        /\ t.left = 0
        /\ Commit(loopResetCallback([Cur EXCEPT !.loopResets = @ \ {t}], t.key))
        /\ UNCHANGED budget

\* The timeout that ends the clearing cooldown fires.
ClearingResetFires ==
    /\ clearingResets # <<>>
    /\ Head(clearingResets) = 0
    /\ Commit([Cur EXCEPT !.clearingResets = Tail(@), !.isClearing = FALSE])
    /\ UNCHANGED budget

\* The response of a request arrives and carries a translation.
FetchSucceeds ==
    \E r \in requests, translatedText \in TransportResults :
        /\ Commit(resumeCaller(
              translateSuccess([Cur EXCEPT !.requests = @ \ {r}], r, translatedText), r))
        /\ UNCHANGED budget

\* A request fails: transport error, bad status, malformed payload, or the
\* abort at REQUEST_TIMEOUT.
FetchFails ==
    \E r \in requests :
        /\ Commit(resumeCaller(translateFailure([Cur EXCEPT !.requests = @ \ {r}], r), r))
        /\ UNCHANGED budget

ClearSubtitleData ==
    /\ budget.clears > 0
    /\ Commit(clearSubtitleData(Cur))
    /\ budget' = [budget EXCEPT !.clears = @ - 1]

ClearTranslationTimers ==
    /\ budget.timerClears > 0
    /\ Commit(clearTranslationTimers(Cur))
    /\ budget' = [budget EXCEPT !.timerClears = @ - 1]

\* The state one tick later.
tick(S) ==
    [S EXCEPT
       !.dateNow = 0,
       !.lastApiRequestAgo = Min(@ + 1, API_RATE_LIMIT),
       !.lastProcessedAgo =
           [k \in Keys |-> Min(@[k] + 1, SUBTITLE_PROCESSING_INTERVAL)],
       !.timeouts = { [t EXCEPT !.left = @ - 1] : t \in @ },
       !.loopResets = { [t EXCEPT !.left = @ - 1] : t \in @ },
       !.clearingResets = [i \in 1..Len(@) |-> @[i] - 1],
       !.requests = { [r EXCEPT !.age = @ + 1] : r \in @ },
       !.translatedUtterances =
           [k \in Keys |-> [i \in 1..Len(@[k]) |-> [@[k][i] EXCEPT !.updatedAgo = 1]]],
       !.callLog =
           [@ EXCEPT !.ago = [k \in Keys |->
                                Min(@[k] + 1, SUBTITLE_PROCESSING_INTERVAL)],
                     !.anyAgo = Min(@ + 1, API_RATE_LIMIT)]]

\* Time passes, once every callback that is due has run.  A request is
\* aborted when it is REQUEST_TIMEOUT old.
Tick ==
    /\ \A t \in timeouts : t.left > 0
    /\ \A t \in loopResets : t.left > 0
    /\ \A i \in 1..Len(clearingResets) : clearingResets[i] > 0
    /\ \A r \in requests : r.age < REQUEST_TIMEOUT
    /\ Commit(tick(Cur))
    /\ UNCHANGED budget

Next ==
    \/ ProcessSubtitles
    \/ FinalizeTimerFires
    \/ LoopResetFires
    \/ ClearingResetFires
    \/ FetchSucceeds
    \/ FetchFails
    \/ ClearSubtitleData
    \/ ClearTranslationTimers
    \/ Tick

Spec == Init /\ [][Next]_vars

\* The captions of the conversation in words, arriving one after another
\* within one tick, in any order.
CaptionInit ==
    /\ Constructed
    /\ session = Conversation
    /\ budget = [ clears |-> 0, timerClears |-> 0 ]

CaptionNext == ProcessSubtitles

CaptionSpec == CaptionInit /\ [][CaptionNext]_vars

\* The seminar: every step of the program but those of a host that clears.
SeminarInit ==
    /\ Constructed
    /\ session = Seminar
    /\ budget = [ clears |-> 0, timerClears |-> 0 ]

SeminarNext ==
    \/ ProcessSubtitles
    \/ FinalizeTimerFires
    \/ LoopResetFires
    \/ FetchSucceeds
    \/ FetchFails
    \/ Tick

SeminarSpec == SeminarInit /\ [][SeminarNext]_vars

\* A speaker whose captions are answered one after another, every request
\* succeeding, with one clearSubtitleData and no period of silence as long as
\* SPEECH_SEGMENT_TIMEOUT (a behaviour stops where a finalize timeout is due).
StuckInit ==
    /\ Constructed
    /\ session = Stuck
    /\ budget = [ clears |-> MaxStuckClears, timerClears |-> 0 ]

StuckNext ==
    \/ ProcessSubtitles
    \/ FetchSucceeds
    \/ LoopResetFires
    \/ ClearSubtitleData
    \/ ClearingResetFires
    \/ Tick

StuckSpec == StuckInit /\ [][StuckNext]_vars

\* A fetch is settled: the step of FetchSucceeds or of FetchFails, the only
\* steps that take a request away.
Settles == \E r \in requests : requests' = requests \ {r}

\* The sessions the liveness of the pipeline is checked in: all but Cleared,
\* whose calls of clearSubtitleData the session Restarted makes as well.
LiveInit == Init /\ session # Cleared

\* The scheduling of the host: every fetch is settled in the end, by a
\* response, by an error or by the abort at REQUEST_TIMEOUT.
LiveSpec == LiveInit /\ [][Next]_vars /\ WF_requests(Settles)

\* ------------------------------------------------------------- properties
\* The keys of the active set whose utterance belongs to the speaker `id`.
ActiveOf(id) ==
    { k \in Keys : /\ activeSpeakers[k] # 0
                   /\ getSpeakerId(heap[activeSpeakers[k]].speaker) = id }

\* C1: in every reachable state, after any interleaving of caption
\* snapshots, finalize-timer fires, translation completions and clear-all,
\* the active set holds at most one ActiveUtterance per speakerId.
OneActivePerSpeaker ==
    \A name \in SpeakerNames : Cardinality(ActiveOf(getSpeakerId(name))) <= 1

\* The case of C1: a speaker seen under two display names, one utterance of
\* theirs finalized and another one, created under the other spelling, open.
OneActivePerSpeakerWitness ==
    /\ session = Renamed
    /\ \E k \in Keys :
          /\ activeSpeakers[k] # 0
          /\ heap[activeSpeakers[k]].speaker = <<"a","n">>
          /\ finalized.key = k
          /\ finalized.utteranceId # heap[activeSpeakers[k]].utteranceId
          /\ \E i \in 1..Len(translatedUtterances[k]) :
                translatedUtterances[k][i].speaker = <<"A","n">>

\* C2: at every instant at most one external translation request is
\* outstanding per speaker.
OneRequestPerSpeaker ==
    \A k \in Keys : Cardinality({ r \in requests : r.key = k }) <= 1

\* C3: the caption updates of one speaker that fall within less than
\* SUBTITLE_PROCESSING_INTERVAL result in at most one external call: two
\* external calls for one speaker are never less than the interval apart.
OneCallPerInterval ==
    callLog.sameSpeakerGap >= SUBTITLE_PROCESSING_INTERVAL

\* C4: any two external calls, for the same or for different speakers, are
\* issued at least API_RATE_LIMIT apart, and a call turned away by the rate
\* gate resolves to the partial translation or the placeholder.
GlobalSpacing ==
    /\ callLog.anyGap >= API_RATE_LIMIT
    /\ lastCall.path = "rate" =>
          lastCall.ret = partialOrPlaceholder(Cur, lastCall.key)

\* The case of C4: an external call was issued and a call arriving less than
\* API_RATE_LIMIT later has been turned away by the rate gate.
GlobalSpacingWitness ==
    /\ lastCall.path = "rate"
    /\ callLog.anyAgo < API_RATE_LIMIT
    /\ requests # {}

\* C5 as stated: calling translate twice with identical arguments, the
\* second call made after the first has resolved, issues no second external
\* call, and both calls return the same string.
RoundTrip ==
    lastCall.prevPath # "none" =>
        /\ lastCall.path # "issued"
        /\ lastCall.ret = lastCall.prevRet

\* C5, amended: when the first call resolved to a translation, either
\* received from the transport and not flagged as a loop or found in the
\* cache, the second call issues no external call and returns the same
\* string.
CacheRoundTrip ==
    lastCall.prevPath \in {"success", "cache"} =>
        /\ lastCall.path = "cache"
        /\ lastCall.ret = lastCall.prevRet

\* The case of C5: a call answered by the transport, then the same call
\* again, answered from the cache.
CacheRoundTripWitness ==
    /\ lastCall.prevPath = "success"
    /\ lastCall.path = "cache"
    /\ lastCall.ret \in TransportResults
    /\ Len(translationCache) > 1

\* The step in which the response to request r arrives with a translation.
Answered(r) ==
    /\ r \in requests
    /\ requests' = requests \ {r}
    /\ lastCall'.path \in {"success", "loop"}

\* After the step the message is what translate resolved to and what the
\* speaker's open utterance shows.
LoopMessageOut(r) ==
    /\ lastCall'.ret = LoopBreakMessage
    /\ (r.frame.kind = "update" /\ activeSpeakers'[r.key] # 0) =>
          heap'[activeSpeakers'[r.key]].translatedText = LoopBreakMessage

\* C6 as stated: when the transport has returned the same string 3 times
\* consecutively for one speaker (the loop guard not having been reset in
\* between), translate returns and publishes the "temporarily unavailable"
\* message on the 3rd occurrence.
LoopOnThird ==
    [][\A r \in requests :
          (Answered(r) /\ guardLog'[r.key].n >= 3) =>
              (lastCall'.path = "loop" /\ LoopMessageOut(r))]_vars

\* C6, amended: translate returns and publishes the message on the 4th
\* consecutive occurrence of one string for one speaker (the third repeat,
\* MAX_REPEAT_COUNT repeats), counted from the latest reset of the loop guard,
\* and not before.
LoopOnFourth ==
    [][\A r \in requests :
          Answered(r) =>
              /\ lastCall'.path = "loop" <=>
                    guardLog'[r.key].n >= MAX_REPEAT_COUNT + 1
              /\ lastCall'.path = "loop" => LoopMessageOut(r)]_vars

\* The case of C6: the fourth identical answer in a row has arrived and the
\* speaker's open utterance shows the message.
LoopOnFourthWitness ==
    /\ lastCall.path = "loop"
    /\ lastCall.caller = "update"
    /\ guardLog[lastCall.key].n = MAX_REPEAT_COUNT + 1
    /\ activeSpeakers[lastCall.key] # 0
    /\ heap[activeSpeakers[lastCall.key]].translatedText = LoopBreakMessage

\* C7: after a loop has been detected for a speaker a reset is pending, the
\* reset sets that speaker's loop counters back when the cooldown has
\* elapsed, and the next translation that differs from the looping one is
\* then stored as the partial translation, published and returned.
CooldownResets ==
    /\ [](\A k \in Keys :
             translationRepeatCount[k] >= MAX_REPEAT_COUNT =>
                 \E t \in loopResets : t.key = k /\ t.left <= LOOP_RESET_DELAY)
    /\ [][\A t \in loopResets :
             (t.left = 0 /\ loopResets' = loopResets \ {t}) =>
                 /\ translationRepeatCount'[t.key] = 0
                 /\ lastTranslationBySpeaker'[t.key] = Undefined]_vars
    /\ [][\A r \in requests :
             (Answered(r) /\ lastCall'.afterReset) =>
                 /\ lastCall'.path = "success"
                 /\ lastCall'.ret \in TransportResults
                 /\ lastCall'.ret # guardLog[r.key].looped
                 /\ partialTranslations'[r.key] = lastCall'.ret
                 /\ (r.frame.kind = "update" /\ activeSpeakers'[r.key] # 0) =>
                       heap'[activeSpeakers'[r.key]].translatedText
                           = lastCall'.ret]_vars

\* The case of C7: a loop was detected, its cooldown has ended, and a
\* different translation has arrived since and is shown.
CooldownResetsWitness ==
    /\ lastCall.afterReset
    /\ lastCall.caller = "update"
    /\ translationRepeatCount[lastCall.key] = 0
    /\ activeSpeakers[lastCall.key] # 0
    /\ heap[activeSpeakers[lastCall.key]].translatedText = lastCall.ret

\* The closed records of utterance `id` in the history of k after the step.
ClosedRecords(k, id) ==
    { i \in 1..Len(translatedUtterances'[k]) :
        /\ translatedUtterances'[k][i].utteranceId = id
        /\ ~translatedUtterances'[k][i].active }

\* C8: finalizing an utterance whose text exceeds MAX_SPEECH_SEGMENT_LENGTH
\* writes exactly one closed record for it to the history and leaves the
\* speaker in the active set with a new open utterance that has a different
\* utteranceId and empty text.
Rollover ==
    [][(finalized' # finalized /\ finalized'.isLong) =>
          LET k == finalized'.key
              id == finalized'.utteranceId
          IN /\ Cardinality(ClosedRecords(k, id)) = 1
             /\ activeSpeakers'[k] # 0
             /\ heap'[activeSpeakers'[k]].active
             /\ heap'[activeSpeakers'[k]].fullText = <<>>
             /\ heap'[activeSpeakers'[k]].utteranceId # id]_vars

\* C9: after a clear-all the history is empty, no utterance is active and no
\* finalize timeout is armed.
ClearAll ==
    [][budget'.clears < budget.clears =>
          /\ \A k \in Keys : translatedUtterances'[k] = <<>>
          /\ \A k \in Keys : activeSpeakers'[k] = 0
          /\ timeouts' = {}]_vars

\* C10: for every speaker and in every reachable state the stored utterances
\* are at most MAX_STORED_UTTERANCES and no two have the same utteranceId.
HistoryBound ==
    \A k \in Keys :
        LET list == translatedUtterances[k] IN
        /\ Len(list) <= MAX_STORED_UTTERANCES
        /\ \A i, j \in 1..Len(list) :
              list[i].utteranceId = list[j].utteranceId => i = j

\* The case of C10: a full history of a speaker that more utterances have
\* been stored in than it can hold.
HistoryBoundWitness ==
    \E k \in Keys :
        /\ Len(translatedUtterances[k]) = MAX_STORED_UTTERANCES
        /\ \E i \in 1..Len(translatedUtterances[k]) :
              translatedUtterances[k][i].utteranceId > MAX_STORED_UTTERANCES

\* The utteranceIds a history array holds.
StoredIds(list) == { list[i].utteranceId : i \in 1..Len(list) }

\* C11: when storing a new utterance makes a speaker's history exceed
\* MAX_STORED_UTTERANCES, the entry evicted is the least recently updated
\* one: every entry updated more recently than another one is retained.  The
\* array is kept sorted most recently updated first, so the entries before
\* the last one are the more recently updated ones (the stamps being
\* distinct: no two stores fell into one tick).
EvictsOldest ==
    [][\A k \in Keys :
          LET list == translatedUtterances[k] IN
          ( /\ finalized' # finalized
            /\ finalized'.key = k
            /\ ~finalized'.tied
            /\ Len(list) = MAX_STORED_UTTERANCES
            /\ finalized'.utteranceId \notin StoredIds(list) )
          => \A i \in 1..(Len(list) - 1) :
                list[i].utteranceId \in StoredIds(translatedUtterances'[k])]_vars

\* The strings the interface shows in place of a translation.
Placeholders == { Translating, Continuing, LoopBreakMessage }

\* C12: when finalizeSpeech completes for an utterance of the active set
\* that is within the length limit and the final translatedText is a
\* placeholder, the utterance stays in the active set (the speaker is removed
\* only if the final translation is not a placeholder).
PlaceholderStays ==
    [][(finalized' # finalized /\ ~finalized'.isLong) =>
          LET k == finalized'.key
              id == finalized'.utteranceId
          IN ( /\ activeSpeakers[k] # 0
               /\ heap[activeSpeakers[k]].utteranceId = id
               /\ \E i \in ClosedRecords(k, id) :
                     translatedUtterances'[k][i].translatedText \in Placeholders )
             => /\ activeSpeakers'[k] # 0
                /\ heap'[activeSpeakers'[k]].utteranceId = id]_vars

\* The step in which the request r fails.
Failed(r) ==
    /\ r \in requests
    /\ requests' = requests \ {r}
    /\ lastCall'.path = "failed"

\* C13: when the external call fails (timeout, transport error, bad status,
\* malformed payload) translate resolves: it clears the speaker's in-flight
\* marker and resolves to the speaker's partial translation if there is one,
\* otherwise it publishes and resolves to the "Translating..." placeholder.
FailureResolves ==
    [][\A r \in requests :
          Failed(r) =>
              /\ ~translationInProgress'[r.key]
              /\ lastCall'.key = r.key
              /\ IF Truthy(partialTranslations[r.key])
                 THEN lastCall'.ret = partialTranslations[r.key]
                 ELSE /\ lastCall'.ret = Translating
                      /\ (r.frame.kind = "update" /\ activeSpeakers'[r.key] # 0) =>
                            heap'[activeSpeakers'[r.key]].translatedText
                                = Translating]_vars

\* The case of C13: a request of a speaker who has a partial translation has
\* failed after the request timeout, and the call has resolved to that
\* translation with the marker cleared.
FailureResolvesWitness ==
    /\ lastCall.path = "failed"
    /\ lastCall.ret \in TransportResults
    /\ lastCall.ret = partialTranslations[lastCall.key]
    /\ ~translationInProgress[lastCall.key]
    /\ requests = {}

\* C14: for every speaker at most one finalize timeout is armed at any time:
\* arming one cancels the one armed before it for that speaker.
OneTimerPerKey ==
    \A k \in Keys : Cardinality({ t \in timeouts : t.key = k }) <= 1

\* C15: clearTranslationTimers cancels every armed timer: after it returns
\* the registry is empty and no finalize timeout armed before it is left to
\* fire.
CancelsEverything ==
    [][budget'.timerClears < budget.timerClears =>
          /\ \A k \in Keys : activeTimers'[k] = 0
          /\ timeouts' = {}]_vars

\* The first n whitespace-separated words of a text.
FirstWords(s, n) == SubSeq(Split(s), 1, Min(n, Len(Split(s))))

\* The first floor(0.8 x length) characters of a text.
Prefix80(s) == SubSeq(s, 1, (8 * Len(s)) \div 10)

\* The criterion of C16 for a previous and a new text.
ClaimedContinuation(previous, new) ==
    \/ Includes(previous, Prefix80(new))
    \/ Includes(new, Prefix80(previous))
    \/ FirstWords(previous, 5) = FirstWords(new, 5)

\* The caption `text` is processed in this step for the speaker k, who has an
\* open utterance with a text.
Continues(k, text) ==
    /\ activeSpeakers[k] # 0
    /\ Truthy(heap[activeSpeakers[k]].fullText)
    /\ text \notin knownSubtitles
    /\ text \in knownSubtitles'
    /\ activeSpeakers'[k] = activeSpeakers[k]

\* C16: for every present previous text and new text the classifier reports
\* a continuation exactly when either text contains the first
\* floor(0.8 x length) characters of the other or the first five words of
\* both are equal, and a continuation that is not shorter replaces the text;
\* "Hello how are you today" followed by "Hello how are you today I am" is a
\* continuation, "Hello" followed by "Completely unrelated sentence" is not.
ClassifierExact ==
    /\ isContinuationOf(HelloHowAreYouToday, HelloHowAreYouTodayIAm)
    /\ ~isContinuationOf(Hello, CompletelyUnrelated)
    /\ [][\A k \in Keys : \A text \in session.texts :
             Continues(k, text) =>
                 LET existingText == heap[activeSpeakers[k]].fullText IN
                 /\ isContinuationOf(existingText, text)
                        <=> ClaimedContinuation(existingText, text)
                 /\ ( /\ isContinuationOf(existingText, text)
                      /\ Len(text) >= Len(existingText) )
                    => heap'[activeSpeakers'[k]].fullText = text]_vars

\* The case of C16: "Hello how are you today" opened the utterance and
\* "Hello how are you today I am" has replaced it.
ClassifierExactWitness ==
    \E k \in Keys :
        /\ activeSpeakers[k] # 0
        /\ lastTranslatedText[k] = HelloHowAreYouToday
        /\ knownSubtitles = { HelloHowAreYouToday, HelloHowAreYouTodayIAm }
        /\ heap[activeSpeakers[k]].fullText = HelloHowAreYouTodayIAm

\* `text` is a strict truncation of `full`.
Truncates(text, full) ==
    /\ Len(text) < Len(full)
    /\ SubSeq(full, 1, Len(text)) = text

\* C17: within one segment the text of an open utterance is never replaced
\* by a shorter text classified as a continuation, and a snapshot that is a
\* strict truncation of the text leaves it unchanged: the length does not
\* decrease until a snapshot that is not a continuation arrives.
TruncationKept ==
    [][\A k \in Keys :
          ( /\ activeSpeakers[k] # 0
            /\ activeSpeakers'[k] = activeSpeakers[k]
            /\ heap'[activeSpeakers[k]].utteranceId
                  = heap[activeSpeakers[k]].utteranceId )
          => LET existingText == heap[activeSpeakers[k]].fullText
                 newText == heap'[activeSpeakers[k]].fullText
             IN /\ Len(newText) < Len(existingText) =>
                      ~isContinuationOf(existingText, newText)
                /\ \A text \in session.texts :
                      (Continues(k, text) /\ Truncates(text, existingText))
                          => newText = existingText]_vars

\* The case of C17: the utterance was opened by "abc" and translated, and the
\* truncated snapshot "ab" that arrived afterwards has left the text as it
\* was (the call it caused was answered from the cache, which holds "abc"
\* alone).
TruncationKeptWitness ==
    \E k \in Keys :
        /\ session = Monologue
        /\ activeSpeakers[k] # 0
        /\ heap[activeSpeakers[k]].fullText = <<"a","b","c">>
        /\ knownSubtitles = { <<"a","b">>, <<"a","b","c">> }
        /\ lastCall.caller = "update"
        /\ lastCall.path = "cache"
        /\ lastCall.text = <<"a","b","c">>
        /\ Len(translationCache) = 1

\* C18: whichever path a translate call took, once it has returned the
\* cache holds at most CACHE_LIMIT entries.
CacheBounded ==
    Len(translationCache) <= CACHE_LIMIT

\* The step in which the finalizeSpeech that awaits request r resumes, the
\* utterance it holds having left the active set during the await.
ResumesGone(r) ==
    /\ r \in requests
    /\ requests' = requests \ {r}
    /\ r.frame.kind = "finalize"
    /\ session.clears
    /\ budget.clears < MaxClears
    /\ activeSpeakers[r.key] # r.frame.obj

\* C19: a finalizeSpeech that resumes after a clear-all has removed its
\* utterance does nothing: it writes no record to the history and creates
\* no active utterance.
AbandonedFinalize ==
    [][\A r \in requests :
          ResumesGone(r) =>
              /\ translatedUtterances' = translatedUtterances
              /\ activeSpeakers' = activeSpeakers]_vars

\* The step makes a translateText call with the arguments of the call before
\* it, which had failed.
RetriesFailed ==
    /\ lastCall' # lastCall
    /\ lastCall'.prevPath = "failed"

\* C20: after an external call for a speaker has failed, a translate call
\* for the same text, still untranslated, made when the per-speaker interval
\* and the global spacing have elapsed and no request of the speaker is
\* outstanding, issues a new external call.
RetryAfterFailure ==
    [][( /\ RetriesFailed
         /\ ~CacheHas(translationCache, CacheKey(lastCall.lang, lastCall.text))
         /\ lastProcessedAgo[lastCall.key] >= SUBTITLE_PROCESSING_INTERVAL
         /\ lastApiRequestAgo >= API_RATE_LIMIT
         /\ ~translationInProgress[lastCall.key]
         /\ \A r \in requests : r.key # lastCall.key )
       => lastCall'.path = "issued"]_vars

\* The step issues an external call for the speaker k.
Issues(k) ==
    \E r \in requests' \ requests : r.key = k /\ r.age = 0

\* C21: a speaker's in-flight marker is set when the external call is
\* issued and is clear once that call has resumed, by a translation, by a
\* detected loop or by a failure; every external call being settled in the
\* end, no marker stays set forever.
MarkerLifecycle ==
    /\ [][\A k \in Keys : Issues(k) => translationInProgress'[k]]_vars
    /\ [][\A r \in requests :
             (Answered(r) \/ Failed(r)) => ~translationInProgress'[r.key]]_vars
    /\ \A k \in Keys :
          translationInProgress[k] ~> ~translationInProgress[k]

\* The case of C21: a call has resumed on a detected loop, and the marker it
\* had set is clear.
MarkerLifecycleWitness ==
    /\ lastCall.path = "loop"
    /\ ~translationInProgress[lastCall.key]
    /\ \A r \in requests : r.key # lastCall.key

\* The step makes a translateText call that takes `path`.
Calls(path) ==
    /\ lastCall' # lastCall
    /\ lastCall'.path = path

\* C22: a translate call turned away by the per-speaker interval gate issues
\* no external call and leaves the pipeline as it was: the last-processed
\* times, the last-translated texts, the in-flight markers, the partial
\* translations, the state of the loop guard and the cache.
IntervalGateFrame ==
    [][Calls("interval") =>
          /\ requests' = requests
          /\ lastProcessedAgo' = lastProcessedAgo
          /\ lastTranslatedText' = lastTranslatedText
          /\ translationInProgress' = translationInProgress
          /\ partialTranslations' = partialTranslations
          /\ translationRepeatCount' = translationRepeatCount
          /\ lastTranslationBySpeaker' = lastTranslationBySpeaker
          /\ translationCache' = translationCache]_vars

\* The step makes a translateText call (a resumption takes a request away).
MakesCall ==
    /\ lastCall' # lastCall
    /\ requests \subseteq requests'

\* The entries of the cache under `key`.
CachedUnder(key) ==
    { i \in 1..Len(translationCache) : translationCache[i].key = key }

\* C23: a translate call whose text is in the cache returns the cached
\* value and publishes it to the speaker's open utterance, issues no external
\* call and consumes no rate limit: the time of the last outbound call, the
\* last-processed times and the in-flight markers are unchanged.
CacheHitFrame ==
    [][( /\ MakesCall
         /\ Len(lastCall'.text) >= 2
         /\ CachedUnder(CacheKey(lastCall'.lang, lastCall'.text)) # {} )
       => /\ \E i \in CachedUnder(CacheKey(lastCall'.lang, lastCall'.text)) :
                lastCall'.ret = translationCache[i].value
          /\ (lastCall'.caller = "update" /\ activeSpeakers'[lastCall'.key] # 0) =>
                heap'[activeSpeakers'[lastCall'.key]].translatedText
                    = lastCall'.ret
          /\ requests' = requests
          /\ lastApiRequestAgo' = lastApiRequestAgo
          /\ lastProcessedAgo' = lastProcessedAgo
          /\ translationInProgress' = translationInProgress]_vars

\* The case of C23: a call answered from the cache while the rate gate and
\* the speaker's interval gate were closed.
CacheHitFrameWitness ==
    /\ lastCall.path = "cache"
    /\ lastCall.ret \in TransportResults
    /\ lastApiRequestAgo < API_RATE_LIMIT
    /\ lastProcessedAgo[lastCall.key] < SUBTITLE_PROCESSING_INTERVAL

\* C24: clear-all discards every in-flight marker: right after
\* clearSubtitleData no speaker is marked in-flight (so that the first
\* translate call of any speaker after the clear is not turned away by the
\* in-flight gate).
ClearDropsMarkers ==
    [][budget'.clears < budget.clears =>
          \A k \in Keys : ~translationInProgress'[k]]_vars

\* C25: for the whole cooldown that follows a clear-all (the
\* clearSubtitleData_delay from the call of clearSubtitleData, whose reset
\* timeout is armed for as long), also when the clear-all was issued during
\* the cooldown of an earlier one, a caption snapshot creates no active
\* utterance.
CooldownHolds ==
    [][( /\ clearingResets # <<>>
         /\ knownSubtitles' \ knownSubtitles # {} )
       => \A k \in Keys : activeSpeakers[k] = 0 => activeSpeakers'[k] = 0]_vars

\* The step applies the translation a translateText call resolved to to the
\* open utterance of the speaker k.
Applies(k) ==
    /\ lastCall' # lastCall
    /\ lastCall'.caller = "update"
    /\ lastCall'.key = k
    /\ lastCall'.path # "issued"
    /\ lastCall'.ret \in TransportResults
    /\ activeSpeakers'[k] # 0
    /\ heap'[activeSpeakers'[k]].translatedText = lastCall'.ret
    /\ activeSpeakers[k] = activeSpeakers'[k] =>
          heap[activeSpeakers[k]].translatedText # lastCall'.ret

\* C26: when a translation is applied to an open utterance, the history of
\* the speaker afterwards holds an entry for the utteranceId of that
\* utterance that carries the new translated text.
HistoryHasOpen ==
    [][\A k \in Keys :
          Applies(k) =>
              \E i \in 1..Len(translatedUtterances'[k]) :
                  LET u == translatedUtterances'[k][i] IN
                  /\ heap'[activeSpeakers'[k]].utteranceId \in {u.utteranceId, u.id}
                  /\ lastCall'.ret \in {u.translatedText, u.translated}]_vars

\* The step invokes translateText for the speaker k with the text of the open
\* utterance, on behalf of translateAndUpdateUtterance.
Retranslates(k) ==
    /\ lastCall' # lastCall
    /\ lastCall'.caller = "update"
    /\ lastCall'.key = k
    /\ lastCall'.text = heap'[activeSpeakers'[k]].fullText

\* The caption `text` is processed in this step for the speaker k, who has an
\* open utterance: it is attributed to k, no other speaker having an
\* utterance before or after the step (a snapshot of a speaker without an
\* utterance opens one).
ContinuesFor(k, text) ==
    /\ Continues(k, text)
    /\ \A j \in Keys \ {k} : activeSpeakers[j] = 0 /\ activeSpeakers'[j] = 0

\* C27: every caption snapshot processed for a speaker who has an open
\* utterance, continuation or not, resets the inactivity clock of the
\* speaker (afterwards the registered finalize timeout is a new one, and no
\* finalize timeout of the speaker is due sooner than the full
\* SPEECH_SEGMENT_TIMEOUT) and invokes translate for the speaker again.
SnapshotRearms ==
    [][\A k \in Keys : \A text \in session.texts :
          ContinuesFor(k, text) =>
              /\ \E t \in timeouts' : t.key = k /\ t.id = activeTimers'[k]
              /\ \A t \in timeouts' :
                    t.key = k => t.left = SPEECH_SEGMENT_TIMEOUT
              /\ Retranslates(k)]_vars

SameTextShortcut ==
    [][( /\ MakesCall
         /\ lastCall'.text = lastTranslatedText[lastCall'.key]
         /\ Truthy(partialTranslations[lastCall'.key]) )
       => /\ lastCall'.ret = partialTranslations[lastCall'.key]
          /\ partialTranslations' = partialTranslations
          /\ requests' = requests]_vars

\* C29, amended: the cache is looked up first.  A translate call whose text
\* is not in the cache and is the last text sent for the speaker, the speaker
\* having a partial translation, returns that partial translation, leaves
\* it as it is and issues no external call.
SameTextShortcutUncached ==
    [][( /\ MakesCall
         /\ CachedUnder(CacheKey(lastCall'.lang, lastCall'.text)) = {}
         /\ lastCall'.text = lastTranslatedText[lastCall'.key]
         /\ Truthy(partialTranslations[lastCall'.key]) )
       => /\ lastCall'.ret = partialTranslations[lastCall'.key]
          /\ partialTranslations' = partialTranslations
          /\ requests' = requests]_vars

\* The case of C29: the text of a request that failed is passed again when
\* every gate is open, and the call has returned the partial translation the
\* speaker had from an earlier text.
SameTextShortcutWitness ==
    /\ lastCall.path = "same"
    /\ lastCall.prevPath = "failed"
    /\ lastCall.ret \in TransportResults
    /\ lastCall.ret = partialTranslations[lastCall.key]
    /\ lastProcessedAgo[lastCall.key] >= SUBTITLE_PROCESSING_INTERVAL
    /\ lastApiRequestAgo >= API_RATE_LIMIT
    /\ requests = {}

\* The step is a caption snapshot that changes the text of the open utterance
\* of the speaker k.
ChangesText(k) ==
    /\ knownSubtitles' \ knownSubtitles # {}
    /\ activeSpeakers[k] # 0
    /\ activeSpeakers'[k] = activeSpeakers[k]
    /\ heap'[activeSpeakers[k]].utteranceId = heap[activeSpeakers[k]].utteranceId
    /\ heap'[activeSpeakers[k]].fullText # heap[activeSpeakers[k]].fullText

\* C30: when a caption changes the text of an open utterance, what the
\* display is given afterwards, until the translation of the new text
\* resolves, shows the in-progress marker as the translatedText of the
\* utterance (a translation found in the cache has resolved at once).
InProgressShown ==
    [][\A k \in Keys :
          (ChangesText(k) /\ lastCall'.path # "cache") =>
              heap'[activeSpeakers'[k]].translatedText = Translating]_vars

\* The step processes a caption snapshot for the speaker k: the text is new
\* and translateAndUpdateUtterance has called translateText for k.
ProcessedFor(k) ==
    /\ knownSubtitles' \ knownSubtitles # {}
    /\ lastCall' # lastCall
    /\ lastCall'.caller = "update"
    /\ lastCall'.key = k
    /\ activeSpeakers'[k] # 0

\* The utteranceIds of the closed records in the history of k.
ClosedIds(k) ==
    { translatedUtterances[k][i].utteranceId :
        i \in { j \in 1..Len(translatedUtterances[k]) :
                  ~translatedUtterances[k][j].active } }

\* C31: once a segment of a speaker has been finalized (written to the
\* history as closed) or split for length, a caption processed for the
\* speaker afterwards is recorded under an utteranceId different from the
\* finalized one: the open utterance it goes to does not carry the id of a
\* closed record of the speaker.
FinalizedIdRetired ==
    [][\A k \in Keys :
          ProcessedFor(k) =>
              heap'[activeSpeakers'[k]].utteranceId \notin ClosedIds(k)]_vars

\* The transport has behaved as a function of the text so far.
TransportIsFunction ==
    \A p, q \in transportLog : p.key = q.key => p.value = q.value

\* C32: every record of the history whose translatedText is not a
\* placeholder holds the transport's translation of the record's own source
\* text, the transport being a fixed function of the text: never the
\* translation of an earlier version of the text or of another text.
HistoryFaithful ==
    TransportIsFunction =>
        \A k \in Keys : \A i \in 1..Len(translatedUtterances[k]) :
            LET u == translatedUtterances[k][i] IN
            (Truthy(u.translatedText) /\ u.translatedText \notin Placeholders)
                => \E lang \in LangPairs :
                      [ key |-> CacheKey(lang, u.fullText),
                        value |-> u.translatedText ] \in transportLog

\* C33: a translation returned by the transport is written into an open
\* utterance only if that utterance has the utteranceId of the one whose
\* text was sent: a result that resolves when the speaker's utterance has
\* been cleared, closed or rolled over and replaced by a new one leaves the
\* translatedText of the new one as it was.
StaleResultDiscarded ==
    [][\A r \in requests :
          ( /\ Answered(r)
            /\ lastCall'.path = "success"
            /\ activeSpeakers[r.key] # 0
            /\ activeSpeakers'[r.key] = activeSpeakers[r.key]
            /\ heap[activeSpeakers[r.key]].utteranceId # r.sentFor )
          => heap'[activeSpeakers[r.key]].translatedText
                = heap[activeSpeakers[r.key]].translatedText]_vars

\* C34: applying a translation result to an open utterance (a step of
\* translateAndUpdateUtterance: a caption snapshot, or the resumption of the
\* call it awaits) removes no entry of an already finalized utterance from
\* the history, also when the history of the speaker is at its maximum count.
ApplyKeepsHistory ==
    [][\A k \in Keys :
          (lastCall' # lastCall /\ lastCall'.caller = "update") =>
              ClosedIds(k) \subseteq StoredIds(translatedUtterances'[k])]_vars

\* C35: finalizeSpeech removes a speaker from the active set only if no
\* caption of the speaker has been processed between the firing of the
\* finalize timeout and the removal: when a caption has arrived while the
\* final translation was awaited, the speaker is in the active set after
\* finalizeSpeech has resumed.
CaptionKeepsOpen ==
    [][\A r \in requests :
          ( /\ requests' = requests \ {r}
            /\ r.frame.kind = "finalize"
            /\ r.key \in overtaken
            /\ activeSpeakers[r.key] # 0 )
          => activeSpeakers'[r.key] # 0]_vars

\* A finalizeSpeech of the speaker k is suspended on its final translation.
Finalizing(k) == finalizing(Cur, k)

\* C36: whenever a speaker is in the active set and no finalizeSpeech of the
\* speaker is in progress, a finalize timeout is armed for the speaker or the
\* translatedText of the utterance is the "Translating..." placeholder (the
\* dormant case); in particular the utterance reopened by a segment rollover
\* has a finalize timeout armed.
TimerOrDormant ==
    \A k \in Keys :
        (activeSpeakers[k] # 0 /\ ~Finalizing(k)) =>
            \/ \E t \in timeouts : t.key = k
            \/ heap[activeSpeakers[k]].translatedText = Translating

\* C37: a translate call turned away by the global rate gate or by the
\* in-flight gate issues no external call and leaves the pipeline as it was,
\* in particular the last-processed time of the speaker, so that the call
\* does not delay the speaker's next request.
LaterGatesFrame ==
    [][(Calls("rate") \/ Calls("inflight")) =>
          /\ requests' = requests
          /\ lastProcessedAgo' = lastProcessedAgo
          /\ lastApiRequestAgo' = lastApiRequestAgo
          /\ lastTranslatedText' = lastTranslatedText
          /\ translationInProgress' = translationInProgress
          /\ partialTranslations' = partialTranslations
          /\ translationRepeatCount' = translationRepeatCount
          /\ lastTranslationBySpeaker' = lastTranslationBySpeaker
          /\ translationCache' = translationCache]_vars

\* A loop has been detected for the speaker k on the translation
\* guardLog[k].looped, and its cooldown has not ended yet.
LoopPending(k) ==
    /\ guardLog[k].looped # <<>>
    /\ ~guardLog[k].cooled
    /\ \E t \in loopResets : t.key = k

\* C38: once a loop has been detected for a speaker, and until the cooldown
\* resets the loop counters, no translate call for the speaker returns the
\* looping translation and none publishes it to the speaker's open utterance.
LoopSilenced ==
    [][\A k \in Keys :
          ( /\ LoopPending(k)
            /\ lastCall' # lastCall
            /\ lastCall'.key = k )
          => /\ lastCall'.ret # guardLog[k].looped
             /\ ( /\ activeSpeakers'[k] # 0
                  /\ activeSpeakers'[k] = activeSpeakers[k]
                  /\ heap[activeSpeakers[k]].translatedText # guardLog[k].looped )
                => heap'[activeSpeakers[k]].translatedText
                      # guardLog[k].looped]_vars
====
